---- MODULE Spec2Model ----
(***************************************************************************)
(* Lampioni: the daily reconciliation run (scripts/process_daily.py) and   *)
(* the boundary pruning run (scripts/prune_data.py) over the persisted     *)
(* catalog that scripts/process_baseline.py creates.                       *)
(*                                                                         *)
(* Persisted files are variables; a run is a process whose position (pc)   *)
(* advances at every network call, the only place where the environment    *)
(* chooses.  Everything a run does between two network calls is one step.  *)
(*                                                                         *)
(* Representation:                                                         *)
(*   - a date string YYYY-MM-DD is a day number (lexicographic order of    *)
(*     the strings is the order of the numbers);                           *)
(*   - a timestamp string is a sequence: <<>> is the empty string,         *)
(*     <<d, t>> is the date d followed by the time-of-day part t;          *)
(*   - a JSON object / Python dict with optional keys is a record that     *)
(*     has the key or not; an insertion-ordered dict keyed by id is a      *)
(*     sequence of values with distinct ids;                               *)
(*   - coordinates and the curated tags of a feature are not modelled.     *)
(***************************************************************************)
EXTENDS Integers, Sequences, FiniteSets, TLC

VARIABLES
  known_ids,         \* known-ids.json: [baseline_ids, new_ids]
  existing_new,      \* streetlamps-new.geojson: the document, [features]
  baseline,          \* streetlamps-baseline.geojson: the "features" list (ids)
  stats,             \* stats.json
  last_updated_txt,  \* last-updated.txt: <<>> while the file does not exist
  now,               \* the wall clock (UTC day)
  pc,                \* position of the running script
  run,               \* the running (or last finished) script: arguments, locals, outcome
  q,                 \* the current overpass_query call
  hist               \* history (when recording is on): what has ever been persisted

vars == <<known_ids, existing_new, baseline, stats, last_updated_txt, now, pc, run, q, hist>>

disk == [known_ids |-> known_ids, existing_new |-> existing_new, baseline |-> baseline,
         stats |-> stats, last_updated_txt |-> last_updated_txt]

-----------------------------------------------------------------------------
(* Bounds of the model *)

MaxId == 2          \* entity ids are 1..MaxId
MaxBaseline == 1    \* the baseline extract holds the ids 1..k for some k <= MaxBaseline
MaxFetch == 2       \* records in one provider response
MaxDay == 2         \* the clock runs over the days 1..MaxDay
MaxTsDay == 1       \* edit timestamps carry a day in 1..MaxTsDay
MaxUsers == 22      \* contributors in a collection given to the Aggregator on its own

Ids == 1..MaxId
Days == 1..MaxDay
Users == {"alice"}

(* Program constants *)

NumEndpoints == 4            \* len(OVERPASS_ENDPOINTS), process_daily.py
NumPruneEndpoints == 2       \* len(OVERPASS_ENDPOINTS), prune_data.py
MAX_DATA_LAG_HOURS == 24
SecondsPerHour == 3600
BASELINE_DATE == 0           \* "2026-02-01T00:00:00Z": the day before day 1
LeaderboardSize == 20
RateLimitPause == 5

None == "None"

-----------------------------------------------------------------------------
(* Generic helpers: Python's dict.get, sequences *)

Get(d, k, default) == IF k \in DOMAIN d THEN d[k] ELSE default

Range(s) == {s[i] : i \in DOMAIN s}

SeqsUpTo(S, n) == UNION {[1..k -> S] : k \in 0..n}

\* existing_new.get("features", []): the entities of streetlamps-new.geojson
new_lamps == Get(existing_new, "features", <<>>)

-----------------------------------------------------------------------------
(* What the network can answer *)

Timestamps == {<<d, 0>> : d \in 1..MaxTsDay}

\* one element of an Overpass response: user and timestamp are optional keys, which
\* "out meta" gives together
RawElements ==
  {[type |-> "node", id |-> i] : i \in Ids}
    \cup {[type |-> "node", id |-> i, user |-> u, timestamp |-> t] :
            i \in Ids, u \in Users, t \in Timestamps}

\* the element lists of a response: no node is listed twice
DistinctIds(elements) ==
  \A i, j \in DOMAIN elements : elements[i].id = elements[j].id => i = j
ElementLists == {s \in SeqsUpTo(RawElements, MaxFetch) : DistinctIds(s)}

\* the osm3s.timestamp_osm_base of a response: absent (or empty), a string that cannot be
\* parsed into a timezone-aware instant, or an instant lag seconds before the current time
TsAbsent == [kind |-> "absent", lag |-> 0]
TsInvalid == [kind |-> "invalid", lag |-> 0]
TsAt(lag) == [kind |-> "instant", lag |-> lag]

HoursAgo(n) == n * SecondsPerHour

\* an endpoint's answer: an HTTP error status, a transport error, any other failure
\* (timeout while reading, undecodable or malformed body), or a JSON document
HttpError(code) == [kind |-> "HTTPError", code |-> code, ts |-> TsAbsent, elements |-> <<>>]
UrlError == [kind |-> "URLError", code |-> 0, ts |-> TsAbsent, elements |-> <<>>]
OtherError == [kind |-> "Exception", code |-> 0, ts |-> TsAbsent, elements |-> <<>>]
Json(ts, elements) == [kind |-> "json", code |-> 0, ts |-> ts, elements |-> elements]


-----------------------------------------------------------------------------
(* process_daily.py: the Freshness Gate and the Provider Selector *)

\* variant: data exactly MAX_DATA_LAG_HOURS old already counts as stale
check_overpass_timestamp_strict(result) ==
  IF result.ts.kind = "absent"
  THEN [is_fresh |-> TRUE, lag |-> 0, ts |-> "unknown"]
  ELSE IF result.ts.kind = "invalid"
  THEN [is_fresh |-> TRUE, lag |-> 0, ts |-> "given"]
  ELSE [is_fresh |-> result.ts.lag < MAX_DATA_LAG_HOURS * SecondsPerHour,
        lag |-> result.ts.lag, ts |-> "given"]

\* check_overpass_timestamp(result, endpoint) -> (is_fresh, lag_hours, timestamp_str).
\* lag is kept in seconds: lag_hours = lag / 3600, so lag_hours <= MAX_DATA_LAG_HOURS
\* is lag <= MAX_DATA_LAG_HOURS * 3600.
check_overpass_timestamp(result) ==
  IF result.ts.kind = "absent"
  THEN [is_fresh |-> TRUE, lag |-> 0, ts |-> "unknown"]        \* can't check, assume OK
  ELSE IF result.ts.kind = "invalid"
  THEN [is_fresh |-> TRUE, lag |-> 0, ts |-> "given"]          \* can't parse, assume OK
  ELSE [is_fresh |-> result.ts.lag <= MAX_DATA_LAG_HOURS * SecondsPerHour,
        lag |-> result.ts.lag, ts |-> "given"]

\* x or default, for x = None (<<>>) or a number (<<n>>)
OrDefault(x, default) == IF x = <<>> \/ x[1] = 0 THEN default ELSE x[1]

Err(type, code, lag) == [type |-> type, code |-> code, lag |-> lag]
NoError == Err(None, 0, 0)
AllEndpointsFailed(last_error) == [type |-> "AllOverpassFailed", last |-> last_error]

\* the KeyError of a dict subscript
KeyError(key) == [type |-> "KeyError", key |-> key]

\* the locals of overpass_query before its loop, plus the history of the call
overpass_query_enter(min_freshness_hours) ==
  [status |-> "loop",
   min_freshness_hours |-> min_freshness_hours,
   last_error |-> NoError,
   freshness_threshold |-> OrDefault(min_freshness_hours, MAX_DATA_LAG_HOURS),
   endpoint |-> 1,            \* index into OVERPASS_ENDPOINTS of the next endpoint
   parsed |-> <<>>,           \* <<response>> once returned
   error |-> <<>>,            \* <<exception>> once raised
   contacted |-> <<>>,        \* history: the endpoints contacted, in order
   got |-> <<>>,              \* history: <<the answer of the endpoint contacted last>>
   slept |-> 0,               \* history: seconds spent in time.sleep
   stale |-> 0]               \* history: answers rejected as stale

NoQuery == [overpass_query_enter(<<>>) EXCEPT !.status = "none"]

\* variant: after an HTTP 429 and the pause, the same endpoint is asked again
overpass_query_body_retry_429(qq, response) ==
  LET seen == [qq EXCEPT !.contacted = Append(@, qq.endpoint),
                         !.got = <<response>>]
  IN IF response.kind = "json"
     THEN LET chk == check_overpass_timestamp(response)
          IN IF ~chk.is_fresh
             THEN [seen EXCEPT !.last_error = Err("DataTooStale", 0, chk.lag),
                               !.stale = @ + 1, !.endpoint = @ + 1]
             ELSE [seen EXCEPT !.status = "returned", !.parsed = <<response>>,
                               !.endpoint = @ + 1]
     ELSE IF response.kind = "HTTPError"
     THEN [seen EXCEPT !.last_error = Err("HTTPError", response.code, 0),
                       !.slept = IF response.code = 429 THEN @ + RateLimitPause ELSE @,
                       !.endpoint = IF response.code = 429 THEN @ ELSE @ + 1]
     ELSE [seen EXCEPT !.last_error = Err(response.kind, 0, 0), !.endpoint = @ + 1]

\* variant: a stale answer is skipped without being recorded as the last error
overpass_query_body_stale_unrecorded(qq, response) ==
  LET seen == [qq EXCEPT !.contacted = Append(@, qq.endpoint),
                         !.got = <<response>>,
                         !.endpoint = @ + 1]
  IN IF response.kind = "json"
     THEN LET chk == check_overpass_timestamp(response)
          IN IF ~chk.is_fresh
             THEN [seen EXCEPT !.stale = @ + 1]
             ELSE [seen EXCEPT !.status = "returned", !.parsed = <<response>>]
     ELSE IF response.kind = "HTTPError"
     THEN [seen EXCEPT !.last_error = Err("HTTPError", response.code, 0),
                       !.slept = IF response.code = 429 THEN @ + RateLimitPause ELSE @]
     ELSE [seen EXCEPT !.last_error = Err(response.kind, 0, 0)]

\* one iteration of the loop over OVERPASS_ENDPOINTS, given what the endpoint answered
overpass_query_body(qq, response) ==
  LET seen == [qq EXCEPT !.contacted = Append(@, qq.endpoint),
                         !.got = <<response>>,
                         !.endpoint = @ + 1]
  IN IF response.kind = "json"
     THEN LET chk == check_overpass_timestamp(response)
          IN IF ~chk.is_fresh
             THEN [seen EXCEPT !.last_error = Err("DataTooStale", 0, chk.lag),
                               !.stale = @ + 1]
             ELSE [seen EXCEPT !.status = "returned", !.parsed = <<response>>]
     ELSE IF response.kind = "HTTPError"
     THEN [seen EXCEPT !.last_error = Err("HTTPError", response.code, 0),
                       !.slept = IF response.code = 429 THEN @ + RateLimitPause ELSE @]
     ELSE [seen EXCEPT !.last_error = Err(response.kind, 0, 0)]

\* variant: the first endpoint that fails or is stale ends the loop
overpass_query_exit_first_failure(qq) ==
  IF qq.status = "loop"
  THEN [qq EXCEPT !.status = "raised", !.error = <<AllEndpointsFailed(qq.last_error)>>]
  ELSE qq

\* variant: with every endpoint tried and nothing returned, an empty result is returned
overpass_query_exit_empty(qq) ==
  IF qq.status = "loop" /\ qq.endpoint > NumEndpoints
  THEN [qq EXCEPT !.status = "returned", !.parsed = <<Json(TsAbsent, <<>>)>>]
  ELSE qq

\* the loop's exit: with every endpoint tried and nothing returned, raise
overpass_query_exit(qq) ==
  IF qq.status = "loop" /\ qq.endpoint > NumEndpoints
  THEN [qq EXCEPT !.status = "raised", !.error = <<AllEndpointsFailed(qq.last_error)>>]
  ELSE qq

overpass_query_iter(qq, response) == overpass_query_exit(overpass_query_body(qq, response))

-----------------------------------------------------------------------------
(* process_daily.py: the Entity Normalizer *)

HasId(d, id) == \E i \in DOMAIN d : d[i].osm_id = id

\* d[v.osm_id] = v on an insertion-ordered dict: an existing key keeps its position
DictPut(d, v) ==
  IF HasId(d, v.osm_id)
  THEN [i \in DOMAIN d |-> IF d[i].osm_id = v.osm_id THEN v ELSE d[i]]
  ELSE Append(d, v)

\* d[id], for an id that d has
Lookup(d, id) == d[CHOOSE i \in DOMAIN d : d[i].osm_id = id]

Front(s) == SubSeq(s, 1, Len(s) - 1)
Last(s) == s[Len(s)]

\* fetch_new_streetlamps_overpass: the lamps dict built from result["elements"]
RECURSIVE fetch_new_streetlamps_overpass(_)
fetch_new_streetlamps_overpass(elements) ==
  IF elements = <<>> THEN <<>>
  ELSE LET lamps == fetch_new_streetlamps_overpass(Front(elements))
           element == Last(elements)
       IN IF Get(element, "type", None) # "node" THEN lamps
          ELSE DictPut(lamps, [osm_id |-> element.id,
                               user |-> Get(element, "user", "unknown"),
                               timestamp |-> Get(element, "timestamp", <<>>)])

\* fetch_streetlamps_postpass: the lamps dict built from result["features"]
RECURSIVE fetch_streetlamps_postpass(_)
fetch_streetlamps_postpass(features) ==
  IF features = <<>> THEN <<>>
  ELSE LET lamps == fetch_streetlamps_postpass(Front(features))
           osm_id == Get(Last(features), "osm_id", 0)
       IN IF osm_id = 0 THEN lamps
          ELSE DictPut(lamps, [osm_id |-> osm_id, user |-> "unknown", timestamp |-> <<>>])

-----------------------------------------------------------------------------
(* process_daily.py main: the Reconciliation Merger *)

\* variant: the fetch is taken as it is, baseline ids included
truly_new_of_everything(new_lamps_data, baseline_ids) == new_lamps_data

\* truly_new = {k: v for k, v in new_lamps_data.items() if k not in baseline_ids}
NotInBaseline(ids, f) == f.osm_id \notin Range(ids)
truly_new_of(new_lamps_data, baseline_ids) ==
  SelectSeq(new_lamps_data, LAMBDA f : NotInBaseline(baseline_ids, f))

\* ts[:10] of a non-empty timestamp: its date part
DatePart(ts) == Head(ts)

\* variant: date_added is taken from the fetch on every run, known entity or not
merge_feature_fresh_date(feature, existing_by_id, has_metadata, today) ==
  [osm_id |-> feature.osm_id,
   user |-> feature.user,
   timestamp |-> feature.timestamp,
   date_added |-> IF feature.timestamp # <<>> THEN DatePart(feature.timestamp) ELSE today]

\* variant: a first observation is always dated with the run's date
merge_feature_dated_today(feature, existing_by_id, has_metadata, today) ==
  IF HasId(existing_by_id, feature.osm_id)
  THEN LET existing == Lookup(existing_by_id, feature.osm_id)
       IN [osm_id |-> feature.osm_id,
           user |-> IF ~has_metadata /\ Get(existing, "user", "unknown") # "unknown"
                    THEN existing.user ELSE feature.user,
           timestamp |-> feature.timestamp,
           date_added |-> Get(existing, "date_added", today)]
  ELSE [osm_id |-> feature.osm_id,
        user |-> feature.user,
        timestamp |-> feature.timestamp,
        date_added |-> today]

\* variant: the user is always the one the fetch reports
merge_feature_fetched_user(feature, existing_by_id, has_metadata, today) ==
  [osm_id |-> feature.osm_id,
   user |-> feature.user,
   timestamp |-> feature.timestamp,
   date_added |-> IF HasId(existing_by_id, feature.osm_id)
                  THEN Get(Lookup(existing_by_id, feature.osm_id), "date_added", today)
                  ELSE IF feature.timestamp # <<>> THEN DatePart(feature.timestamp)
                  ELSE today]

\* variant: a known entity without date_added is dated like a first observation
merge_feature_undated_from_timestamp(feature, existing_by_id, has_metadata, today) ==
  LET first_date == IF feature.timestamp # <<>> THEN DatePart(feature.timestamp) ELSE today
  IN IF HasId(existing_by_id, feature.osm_id)
     THEN LET existing == Lookup(existing_by_id, feature.osm_id)
          IN [osm_id |-> feature.osm_id,
              user |-> IF ~has_metadata /\ Get(existing, "user", "unknown") # "unknown"
                       THEN existing.user ELSE feature.user,
              timestamp |-> feature.timestamp,
              date_added |-> Get(existing, "date_added", first_date)]
     ELSE [osm_id |-> feature.osm_id,
           user |-> feature.user,
           timestamp |-> feature.timestamp,
           date_added |-> first_date]

\* variant: a known user is kept whenever the fetched record has none, whatever the source
merge_feature_known_user_kept(feature, existing_by_id, has_metadata, today) ==
  IF HasId(existing_by_id, feature.osm_id)
  THEN LET existing == Lookup(existing_by_id, feature.osm_id)
       IN [osm_id |-> feature.osm_id,
           user |-> IF feature.user = "unknown" /\ Get(existing, "user", "unknown") # "unknown"
                    THEN existing.user ELSE feature.user,
           timestamp |-> feature.timestamp,
           date_added |-> Get(existing, "date_added", today)]
  ELSE [osm_id |-> feature.osm_id,
        user |-> feature.user,
        timestamp |-> feature.timestamp,
        date_added |-> IF feature.timestamp # <<>> THEN DatePart(feature.timestamp)
                       ELSE today]

\* the body of the loop over truly_new: the feature with date_added (and user) settled
merge_feature(feature, existing_by_id, has_metadata, today) ==
  IF HasId(existing_by_id, feature.osm_id)
  THEN LET existing == Lookup(existing_by_id, feature.osm_id)
       IN [osm_id |-> feature.osm_id,
           user |-> IF ~has_metadata /\ Get(existing, "user", "unknown") # "unknown"
                    THEN existing.user ELSE feature.user,
           timestamp |-> feature.timestamp,
           date_added |-> Get(existing, "date_added", today)]
  ELSE [osm_id |-> feature.osm_id,
        user |-> feature.user,
        timestamp |-> feature.timestamp,
        date_added |-> IF feature.timestamp # <<>> THEN DatePart(feature.timestamp)
                       ELSE today]

\* new_features as the loop leaves it (before the sort)
merge_features(truly_new, existing_by_id, has_metadata, today) ==
  [i \in DOMAIN truly_new |-> merge_feature(truly_new[i], existing_by_id, has_metadata, today)]

\* new_today_count as the loop leaves it
count_new_today(truly_new, existing_by_id) ==
  Cardinality({i \in DOMAIN truly_new : ~HasId(existing_by_id, truly_new[i].osm_id)})

\* the sort key (date_added, -osm_id), compared as Python compares tuples
KeyGreater(a, b) ==
  \/ a.date_added > b.date_added
  \/ a.date_added = b.date_added /\ (0 - a.osm_id) > (0 - b.osm_id)

RECURSIVE InsertFeature(_, _)
InsertFeature(sorted, f) ==
  IF sorted = <<>> THEN <<f>>
  ELSE IF KeyGreater(f, Head(sorted)) THEN <<f>> \o sorted
       ELSE <<Head(sorted)>> \o InsertFeature(Tail(sorted), f)

\* variant: sorted by date_added alone, the order of the fetch kept within a date
RECURSIVE InsertFeatureByDate(_, _)
InsertFeatureByDate(sorted, f) ==
  IF sorted = <<>> THEN <<f>>
  ELSE IF f.date_added > Head(sorted).date_added THEN <<f>> \o sorted
       ELSE <<Head(sorted)>> \o InsertFeatureByDate(Tail(sorted), f)

RECURSIVE sort_features_by_date(_)
sort_features_by_date(features) ==
  IF features = <<>> THEN <<>>
  ELSE InsertFeatureByDate(sort_features_by_date(Front(features)), Last(features))

\* variant: the features stay in the order of the fetch
sort_features_unsorted(features) == features

\* new_features.sort(key=..., reverse=True): stable, greatest key first
RECURSIVE sort_features(_)
sort_features(features) ==
  IF features = <<>> THEN <<>>
  ELSE InsertFeature(sort_features(Front(features)), Last(features))

-----------------------------------------------------------------------------
(* process_daily.py main: the Aggregator *)

\* counts[key] = counts.get(key, 0) + 1 on an insertion-ordered dict of [key, count]
Bump(counts, key) ==
  IF \E i \in DOMAIN counts : counts[i].key = key
  THEN [i \in DOMAIN counts |->
          IF counts[i].key = key THEN [key |-> key, count |-> counts[i].count + 1]
          ELSE counts[i]]
  ELSE Append(counts, [key |-> key, count |-> 1])

RECURSIVE user_counts_of(_)
user_counts_of(features) ==
  IF features = <<>> THEN <<>>
  ELSE Bump(user_counts_of(Front(features)), Get(Last(features), "user", "unknown"))

RECURSIVE daily_of(_)
daily_of(features) ==
  IF features = <<>> THEN <<>>
  ELSE Bump(daily_of(Front(features)), Last(features).date_added)

RECURSIVE InsertByCount(_, _)
InsertByCount(sorted, x) ==
  IF sorted = <<>> THEN <<x>>
  ELSE IF (0 - x.count) < (0 - Head(sorted).count) THEN <<x>> \o sorted
       ELSE <<Head(sorted)>> \o InsertByCount(Tail(sorted), x)

\* variant: the contributors stay in the order in which they were met
sort_by_count_unsorted(items) == items

\* sorted(user_counts.items(), key=lambda x: -x[1]): stable
RECURSIVE sort_by_count(_)
sort_by_count(items) ==
  IF items = <<>> THEN <<>>
  ELSE InsertByCount(sort_by_count(Front(items)), Last(items))

RECURSIVE InsertByDate(_, _)
InsertByDate(sorted, x) ==
  IF sorted = <<>> THEN <<x>>
  ELSE IF x.key < Head(sorted).key THEN <<x>> \o sorted
       ELSE <<Head(sorted)>> \o InsertByDate(Tail(sorted), x)

\* variant: the histogram keeps the order in which the dates were met
sort_by_date_unsorted(items) == items

\* sorted(daily.items()): the dates are distinct, so the order is by date
RECURSIVE sort_by_date(_)
sort_by_date(items) ==
  IF items = <<>> THEN <<>>
  ELSE InsertByDate(sort_by_date(Front(items)), Last(items))

Take(s, n) == SubSeq(s, 1, IF Len(s) < n THEN Len(s) ELSE n)

leaderboard_of(features) ==
  LET top == Take(sort_by_count(user_counts_of(features)), LeaderboardSize)
  IN [i \in DOMAIN top |-> [user |-> top[i].key, count |-> top[i].count]]

daily_additions_of(features) ==
  LET days == sort_by_date(daily_of(features))
  IN [i \in DOMAIN days |-> [date |-> days[i].key, count |-> days[i].count]]

\* d[k] = v on a JSON object
SetKey(d, k, v) == [x \in DOMAIN d \cup {k} |-> IF x = k THEN v ELSE d[x]]

\* stats after the "Update stats" block
stats_of(old, new_features, has_metadata, clock) ==
  SetKey(SetKey(SetKey(SetKey(SetKey(old,
    "new_count", Len(new_features)),
    "last_updated", clock),
    "data_source", IF has_metadata THEN "overpass" ELSE "postpass"),
    "leaderboard", leaderboard_of(new_features)),
    "daily_additions", daily_additions_of(new_features))

\* variant: the index entry holds only the ids the run saw for the first time
known_ids_of_discovered(old, truly_new, today) ==
  LET discovered == SelectSeq(truly_new, LAMBDA f : ~HasId(new_lamps, f.osm_id))
  IN SetKey(old, "new_ids",
            <<[date |-> today, ids |-> [i \in DOMAIN discovered |-> discovered[i].osm_id]]>>)

\* variant: the run's ids are written into baseline_ids as well
known_ids_of_absorbing(old, truly_new, today) ==
  LET ids == [i \in DOMAIN truly_new |-> truly_new[i].osm_id]
  IN [baseline_ids |-> old.baseline_ids \o ids,
      new_ids |-> <<[date |-> today, ids |-> ids]>>]

\* variant: known_ids["new_ids"][today] = all_new_ids, the entries of other dates kept
known_ids_of_updating(old, truly_new, today) ==
  SetKey(old, "new_ids",
         Append(SelectSeq(old.new_ids, LAMBDA e : e.date # today),
                [date |-> today, ids |-> [i \in DOMAIN truly_new |-> truly_new[i].osm_id]]))

\* variant: the run's ids are added to the index, which keeps its earlier entries
known_ids_of_appending(old, truly_new, today) ==
  SetKey(old, "new_ids",
         Append(old.new_ids,
                [date |-> today, ids |-> [i \in DOMAIN truly_new |-> truly_new[i].osm_id]]))

\* known_ids after known_ids["new_ids"] = {today: all_new_ids}
known_ids_of(old, truly_new, today) ==
  SetKey(old, "new_ids",
         <<[date |-> today, ids |-> [i \in DOMAIN truly_new |-> truly_new[i].osm_id]]>>)

-----------------------------------------------------------------------------
(* The answers the environment draws from *)

Fresh == TsAt(0)
Stale == TsAt(HoursAgo(MAX_DATA_LAG_HOURS + 1))

\* a daily run's Overpass endpoints: stale, or fresh with any records, or (where the
\* endpoints are taken to fail as well) out of reach
DailyResponses ==
  {Json(Stale, <<>>)}
    \cup {Json(Fresh, elements) : elements \in ElementLists}
    \cup (IF hist.faulty THEN {UrlError} ELSE {})

\* Postpass features (their "properties"): osm_id is an optional key
PostpassFeatures == {[osm_id |-> i] : i \in Ids} \cup {[tags |-> <<>>]}

PostpassResponses ==
  {OtherError} \cup {Json(TsAbsent, features) : features \in SeqsUpTo(PostpassFeatures, MaxFetch)}

\* "out ids" answers to the prune query: the ids of a set of nodes, ascending
IdElements == {[type |-> "node", id |-> i] : i \in Ids}
IdLists ==
  {s \in SeqsUpTo(IdElements, MaxId) : \A i \in 1..(Len(s) - 1) : s[i].id < s[i + 1].id}

PruneResponses ==
  {HttpError(500), UrlError, OtherError} \cup {Json(TsAbsent, elements) : elements \in IdLists}

-----------------------------------------------------------------------------
(* The state after process_baseline.py *)

NoRun ==
  [script |-> None, outcome |-> None,
   full_refresh |-> FALSE, no_postpass_fallback |-> FALSE, dry_run |-> FALSE,
   today |-> 0,              \* today, as main computed it before the fetch
   has_metadata |-> FALSE, new_lamps_data |-> <<>>, new_today_count |-> 0,
   error |-> <<>>,           \* <<exception>> when the run ended with one
   existing |-> {},          \* history: the ids of existing_by_id
   undated |-> {},           \* history: the ids of existing_by_id without a date_added
   postpass |-> FALSE,       \* history: Postpass was contacted
   all_stale |-> FALSE]      \* history: every Overpass endpoint answered with stale data

\* hist.first_date[id]: the date_added id was first persisted with (0: never persisted);
\* hist.baseline_ids: the ids that have ever been in baseline_ids
\* hist.last: <<the last successful daily run>> (when pairs of runs are recorded): the
\* entities and the new_ids index it found on disk, what it fetched, with or without
\* metadata, on which day;
\* hist.repeated: that run had the fetch, the day and the metadata of the one before it;
\* hist.faulty: the Overpass endpoints of a daily run may be out of reach
HistOff ==
  [on |-> FALSE, first_date |-> [id \in Ids |-> 0], baseline_ids |-> {},
   pairs |-> FALSE, last |-> <<>>, repeated |-> FALSE, faulty |-> FALSE]

\* process_baseline.py main, steps 5-7: the ledger, the stats and the empty collection
Init ==
  /\ \E k \in 0..MaxBaseline :
       /\ baseline = [i \in 1..k |-> [osm_id |-> i]]
       /\ known_ids = [baseline_ids |-> [i \in 1..k |-> i], new_ids |-> <<>>]
       /\ stats = [baseline_count |-> k, new_count |-> 0, last_updated |-> BASELINE_DATE,
                   leaderboard |-> <<>>, daily_additions |-> <<>>]
  /\ existing_new = [features |-> <<>>]
  /\ last_updated_txt = <<>>
  /\ now = 1
  /\ pc = "idle"
  /\ run = NoRun
  /\ q = NoQuery
  /\ hist = HistOff

-----------------------------------------------------------------------------
(* process_daily.py main *)

\* main up to the fetch: arguments parsed, files loaded, today computed
StartDaily(full_refresh, no_postpass_fallback) ==
  LET started == [NoRun EXCEPT !.script = "daily", !.outcome = "running",
                               !.full_refresh = full_refresh,
                               !.no_postpass_fallback = no_postpass_fallback,
                               !.today = now,
                               !.existing = {new_lamps[i].osm_id : i \in DOMAIN new_lamps},
                               !.undated = {new_lamps[i].osm_id : i \in
                                              {j \in DOMAIN new_lamps :
                                                 "date_added" \notin DOMAIN new_lamps[j]}}]
  IN /\ pc = "idle"
     /\ IF "baseline_ids" \notin DOMAIN known_ids
        THEN \* known_ids["baseline_ids"] raises KeyError: the run ends before the fetch
             /\ run' = [started EXCEPT !.outcome = "error",
                                       !.error = <<KeyError("baseline_ids")>>]
             /\ UNCHANGED <<pc, q>>
        ELSE /\ pc' = "overpass"
             /\ run' = started
             /\ q' = overpass_query_enter(<<>>)
     /\ UNCHANGED <<known_ids, existing_new, baseline, stats, last_updated_txt, now, hist>>

\* existing_by_id = {f["properties"]["osm_id"]: f for f in existing_new.get("features", [])}
RECURSIVE existing_by_id_of(_)
existing_by_id_of(features) ==
  IF features = <<>> THEN <<>>
  ELSE DictPut(existing_by_id_of(Front(features)), Last(features))

\* variant: the known entities that the fetch lacks are kept
new_features_of_keep_existing(new_lamps_data, has_metadata, today) ==
  LET truly_new == truly_new_of(new_lamps_data, known_ids.baseline_ids)
      kept == SelectSeq(new_lamps, LAMBDA f : ~HasId(truly_new, f.osm_id))
  IN sort_features(merge_features(truly_new, existing_by_id_of(new_lamps), has_metadata, today)
                   \o kept)

\* new_features: filter, merge loop and sort
new_features_of(new_lamps_data, has_metadata, today) ==
  sort_features(merge_features(truly_new_of(new_lamps_data, known_ids.baseline_ids),
                               existing_by_id_of(new_lamps), has_metadata, today))

\* history: the features just persisted
Remember(h, features) ==
  IF ~h.on THEN h
  ELSE [h EXCEPT !.first_date =
          [id \in Ids |-> IF @[id] = 0 /\ HasId(features, id)
                          THEN Lookup(features, id).date_added ELSE @[id]]]

\* history: the run that has just succeeded
RememberRun(h, new_lamps_data, has_metadata) ==
  IF ~h.pairs THEN h
  ELSE LET this == [catalog |-> new_lamps, index |-> known_ids.new_ids,
                    fetch |-> new_lamps_data,
                    has_metadata |-> has_metadata, today |-> run.today]
       IN [h EXCEPT !.last = <<this>>,
                    !.repeated = /\ h.last # <<>>
                                 /\ h.last[1].fetch = this.fetch
                                 /\ h.last[1].has_metadata = this.has_metadata
                                 /\ h.last[1].today = this.today]

\* main after a successful fetch: merge, aggregate, save the files
Commit(qq, new_lamps_data, has_metadata) ==
  LET truly_new == truly_new_of(new_lamps_data, known_ids.baseline_ids)
      new_features == new_features_of(new_lamps_data, has_metadata, run.today)
      new_stats == stats_of(stats, new_features, has_metadata, now)
  IN /\ known_ids' = known_ids_of(known_ids, truly_new, run.today)
     /\ existing_new' = [features |-> new_features]
     /\ stats' = new_stats
     /\ last_updated_txt' = <<new_stats.last_updated>>
     /\ run' = [run EXCEPT !.outcome = "ok",
                           !.has_metadata = has_metadata,
                           !.new_lamps_data = new_lamps_data,
                           !.new_today_count =
                              count_new_today(truly_new, existing_by_id_of(new_lamps)),
                           !.all_stale = (qq.stale = NumEndpoints)]
     /\ hist' = RememberRun(Remember(hist, new_features), new_lamps_data, has_metadata)
     /\ q' = NoQuery
     /\ pc' = "idle"
     /\ UNCHANGED <<baseline, now>>

\* variant: the last-updated marker is written before the run gives up
FailAfterMarking(qq, error) ==
  /\ run' = [run EXCEPT !.outcome = "error", !.error = <<error>>,
                        !.all_stale = (qq.stale = NumEndpoints)]
  /\ last_updated_txt' = <<now>>
  /\ q' = NoQuery
  /\ pc' = "idle"
  /\ UNCHANGED <<known_ids, existing_new, baseline, stats, now, hist>>

\* the run ends with an uncaught exception: nothing is saved
Fail(qq, error) ==
  /\ run' = [run EXCEPT !.outcome = "error", !.error = <<error>>,
                        !.all_stale = (qq.stale = NumEndpoints)]
  /\ q' = NoQuery
  /\ pc' = "idle"
  /\ UNCHANGED <<known_ids, existing_new, baseline, stats, last_updated_txt, now, hist>>

\* fetch_new_streetlamps: Overpass failed, fall back to Postpass
FallBack(qq) ==
  /\ run' = [run EXCEPT !.postpass = TRUE, !.all_stale = (qq.stale = NumEndpoints)]
  /\ q' = qq
  /\ pc' = "postpass"
  /\ UNCHANGED <<known_ids, existing_new, baseline, stats, last_updated_txt, now, hist>>

\* one Overpass endpoint answers the daily run's query, and the run goes on from there:
\* to the next endpoint, to the merge, to Postpass or to its end
OverpassTry ==
  /\ pc = "overpass"
  /\ \E response \in DailyResponses :
       LET qq == overpass_query_iter(q, response)
       IN IF qq.status = "loop"
          THEN /\ q' = qq
               /\ UNCHANGED <<known_ids, existing_new, baseline, stats, last_updated_txt,
                              now, pc, run, hist>>
          ELSE IF qq.status = "returned"
          THEN Commit(qq, fetch_new_streetlamps_overpass(qq.parsed[1].elements), TRUE)
          ELSE IF ~run.no_postpass_fallback
          THEN FallBack(qq)
          ELSE Fail(qq, qq.error[1])

\* postpass_query answers (or fails), and the run goes on to its end
PostpassTry ==
  /\ pc = "postpass"
  /\ \E response \in PostpassResponses :
       IF response.kind = "json"
       THEN Commit(q, fetch_streetlamps_postpass(response.elements), FALSE)
       ELSE Fail(q, [type |-> "PostpassFailed", last |-> Err(response.kind, 0, 0)])

-----------------------------------------------------------------------------
(* prune_data.py *)

\* main up to the fetch: arguments parsed, files loaded
StartPrune(dry_run) ==
  /\ pc = "idle"
  /\ pc' = "prune"
  /\ run' = [NoRun EXCEPT !.script = "prune", !.outcome = "running", !.dry_run = dry_run,
                          !.today = now,
                          !.existing = {new_lamps[i].osm_id : i \in DOMAIN new_lamps}]
  /\ q' = [NoQuery EXCEPT !.status = "loop"]
  /\ UNCHANGED <<known_ids, existing_new, baseline, stats, last_updated_txt, now, hist>>

\* fetch_italy_lamp_ids: {el['id'] for el in result.get('elements', []) if el.get('type') == 'node'}
valid_ids_of(elements) ==
  {elements[i].id : i \in {j \in DOMAIN elements : Get(elements[j], "type", None) = "node"}}

\* the three filters of main
KeepValid(valid_ids, features) == SelectSeq(features, LAMBDA f : f.osm_id \in valid_ids)
KeepValidIds(valid_ids, ids) == SelectSeq(ids, LAMBDA id : id \in valid_ids)

\* main after the fetch: filter, and unless --dry-run save the four files
Prune(valid_ids) ==
  LET baseline_features == KeepValid(valid_ids, baseline)
      new_features == KeepValid(valid_ids, new_lamps)
      valid_baseline_ids == KeepValidIds(valid_ids, known_ids.baseline_ids)
  IN /\ IF run.dry_run
        THEN UNCHANGED <<known_ids, existing_new, baseline, stats>>
        ELSE /\ baseline' = baseline_features
             /\ existing_new' = [features |-> new_features]
             /\ known_ids' = SetKey(known_ids, "baseline_ids", valid_baseline_ids)
             /\ stats' = SetKey(SetKey(stats, "baseline_count", Len(baseline_features)),
                                "new_count", Len(new_features))
     /\ run' = [run EXCEPT !.outcome = "ok"]
     /\ q' = NoQuery
     /\ pc' = "idle"
     /\ UNCHANGED <<last_updated_txt, now, hist>>

\* one endpoint answers the prune query (prune_data.py's own overpass_query: HTTPError and
\* URLError move on to the next endpoint, anything else ends the run)
PruneTry ==
  /\ pc = "prune"
  /\ \E response \in PruneResponses :
       LET qq == [q EXCEPT !.contacted = Append(@, q.endpoint), !.endpoint = @ + 1]
       IN IF response.kind = "json"
          THEN Prune(valid_ids_of(response.elements))
          ELSE IF response.kind \in {"HTTPError", "URLError"}
          THEN IF qq.endpoint > NumPruneEndpoints
               THEN Fail(qq, [type |-> "AllOverpassFailed", last |-> NoError])
               ELSE /\ q' = qq
                    /\ UNCHANGED <<known_ids, existing_new, baseline, stats, last_updated_txt,
                                   now, pc, run, hist>>
          ELSE Fail(qq, [type |-> response.kind, last |-> NoError])

-----------------------------------------------------------------------------
(* The clock, and the specification of the two scripts run one after the other *)

Tick ==
  /\ pc = "idle"
  /\ now < MaxDay
  /\ now' = now + 1
  /\ UNCHANGED <<known_ids, existing_new, baseline, stats, last_updated_txt, pc, run, q, hist>>

Next ==
  \/ \E full_refresh \in BOOLEAN, no_postpass_fallback \in BOOLEAN :
       StartDaily(full_refresh, no_postpass_fallback)
  \/ OverpassTry
  \/ PostpassTry
  \/ \E dry_run \in BOOLEAN : StartPrune(dry_run)
  \/ PruneTry
  \/ Tick

Spec == Init /\ [][Next]_vars

\* the same program, with the history recorded
InitHistory ==
  \E k \in 0..MaxBaseline :
    /\ baseline = [i \in 1..k |-> [osm_id |-> i]]
    /\ known_ids = [baseline_ids |-> [i \in 1..k |-> i], new_ids |-> <<>>]
    /\ stats = [baseline_count |-> k, new_count |-> 0, last_updated |-> BASELINE_DATE,
                leaderboard |-> <<>>, daily_additions |-> <<>>]
    /\ existing_new = [features |-> <<>>]
    /\ last_updated_txt = <<>>
    /\ now = 1
    /\ pc = "idle"
    /\ run = NoRun
    /\ q = NoQuery
    /\ hist = [HistOff EXCEPT !.on = TRUE, !.baseline_ids = 1..k]

\* daily runs only
NextDaily ==
  \/ \E full_refresh \in BOOLEAN, no_postpass_fallback \in BOOLEAN :
       StartDaily(full_refresh, no_postpass_fallback)
  \/ OverpassTry
  \/ PostpassTry
  \/ Tick

SpecDaily == InitHistory /\ [][NextDaily]_vars

-----------------------------------------------------------------------------
(* overpass_query on its own: called with any min_freshness_hours, answered by *)
(* endpoints that fail or answer in every way the function distinguishes      *)

\* the two scripts, the ids process_baseline.py put in baseline_ids kept on record (no run
\* of either script ever adds an id to baseline_ids, so these are all it has ever held)
InitLedger ==
  \E k \in 0..MaxBaseline :
    /\ baseline = [i \in 1..k |-> [osm_id |-> i]]
    /\ known_ids = [baseline_ids |-> [i \in 1..k |-> i], new_ids |-> <<>>]
    /\ stats = [baseline_count |-> k, new_count |-> 0, last_updated |-> BASELINE_DATE,
                leaderboard |-> <<>>, daily_additions |-> <<>>]
    /\ existing_new = [features |-> <<>>]
    /\ last_updated_txt = <<>>
    /\ now = 1
    /\ pc = "idle"
    /\ run = NoRun
    /\ q = NoQuery
    /\ hist = [HistOff EXCEPT !.baseline_ids = 1..k]

SpecLedger == InitLedger /\ [][Next]_vars

\* daily runs only, with Overpass endpoints that may be out of reach
InitFaults ==
  \E k \in 0..MaxBaseline :
    /\ baseline = [i \in 1..k |-> [osm_id |-> i]]
    /\ known_ids = [baseline_ids |-> [i \in 1..k |-> i], new_ids |-> <<>>]
    /\ stats = [baseline_count |-> k, new_count |-> 0, last_updated |-> BASELINE_DATE,
                leaderboard |-> <<>>, daily_additions |-> <<>>]
    /\ existing_new = [features |-> <<>>]
    /\ last_updated_txt = <<>>
    /\ now = 1
    /\ pc = "idle"
    /\ run = NoRun
    /\ q = NoQuery
    /\ hist = [HistOff EXCEPT !.faulty = TRUE]

SpecFaults == InitFaults /\ [][NextDaily]_vars

\* daily runs only, each successful run recorded for the next one
InitPairs ==
  \E k \in 0..MaxBaseline :
    /\ baseline = [i \in 1..k |-> [osm_id |-> i]]
    /\ known_ids = [baseline_ids |-> [i \in 1..k |-> i], new_ids |-> <<>>]
    /\ stats = [baseline_count |-> k, new_count |-> 0, last_updated |-> BASELINE_DATE,
                leaderboard |-> <<>>, daily_additions |-> <<>>]
    /\ existing_new = [features |-> <<>>]
    /\ last_updated_txt = <<>>
    /\ now = 1
    /\ pc = "idle"
    /\ run = NoRun
    /\ q = NoQuery
    /\ hist = [HistOff EXCEPT !.pairs = TRUE]

SpecPairs == InitPairs /\ [][NextDaily]_vars

\* a catalog as it may be found on disk: whole, or edited so that an expected key is gone
FoundEntities ==
  {[osm_id |-> i, user |-> "alice", timestamp |-> <<1, 0>>] : i \in Ids}
    \cup {[osm_id |-> i, user |-> "alice", timestamp |-> <<1, 0>>, date_added |-> 1] : i \in Ids}

FoundCollections ==
  {[type |-> "FeatureCollection"]}
    \cup {[features |-> s] : s \in {s \in SeqsUpTo(FoundEntities, MaxFetch) :
                                     \A i, j \in DOMAIN s : i < j => s[i].osm_id < s[j].osm_id}}

InitFound ==
  /\ \E k \in 0..MaxBaseline :
       /\ baseline = [i \in 1..k |-> [osm_id |-> i]]
       /\ known_ids \in {[baseline_ids |-> [i \in 1..k |-> i], new_ids |-> <<>>],
                         [new_ids |-> <<>>]}
       /\ existing_new \in {c \in FoundCollections :
                              \A i \in DOMAIN Get(c, "features", <<>>) : c.features[i].osm_id > k}
       /\ stats = [baseline_count |-> k, new_count |-> Len(Get(existing_new, "features", <<>>)),
                   last_updated |-> BASELINE_DATE,
                   leaderboard |-> <<>>, daily_additions |-> <<>>]
  /\ last_updated_txt = <<>>
  /\ now = 1
  /\ pc = "idle"
  /\ run = NoRun
  /\ q = NoQuery
  /\ hist = HistOff

SpecFound == InitFound /\ [][NextDaily]_vars

QueryLags == {0, HoursAgo(2), HoursAgo(MAX_DATA_LAG_HOURS), HoursAgo(MAX_DATA_LAG_HOURS) + 1}
QueryElementLists == {<<>>, <<[type |-> "node", id |-> 1]>>}
QueryResponses ==
  {HttpError(429), HttpError(500), UrlError, OtherError}
    \cup {Json(ts, elements) :
            ts \in {TsAbsent, TsInvalid} \cup {TsAt(lag) : lag \in QueryLags},
            elements \in QueryElementLists}

\* None, 0 and thresholds below and above MAX_DATA_LAG_HOURS
MinFreshnessChoices == {<<>>, <<0>>, <<1>>, <<2 * MAX_DATA_LAG_HOURS>>}

CallOverpassQuery(min_freshness_hours) ==
  /\ pc = "idle"
  /\ pc' = "query"
  /\ q' = overpass_query_enter(min_freshness_hours)
  /\ UNCHANGED <<known_ids, existing_new, baseline, stats, last_updated_txt, now, run, hist>>

\* one endpoint answers; the call goes on to the next endpoint, returns or raises
QueryTry ==
  /\ pc = "query"
  /\ \E response \in QueryResponses :
       /\ q' = overpass_query_iter(q, response)
       /\ pc' = IF q'.status = "loop" THEN "query" ELSE "query_done"
  /\ UNCHANGED <<known_ids, existing_new, baseline, stats, last_updated_txt, now, run, hist>>

\* the caller drops the result
QueryDone ==
  /\ pc = "query_done"
  /\ pc' = "idle"
  /\ q' = NoQuery
  /\ UNCHANGED <<known_ids, existing_new, baseline, stats, last_updated_txt, now, run, hist>>

NextQuery ==
  \/ \E min_freshness_hours \in MinFreshnessChoices : CallOverpassQuery(min_freshness_hours)
  \/ QueryTry
  \/ QueryDone

SpecQuery == Init /\ [][NextQuery]_vars

-----------------------------------------------------------------------------
(* The Aggregator on its own: the "Update stats" block of main, given any     *)
(* collection of entities of many contributors                                *)

\* entities of the contributors 1..n in this order, one entity each except the heavy
\* ones: two entities each, three for the last heavy one when there are two
EntitiesOf(n, heavy) ==
  LET count(u) == IF u \notin heavy THEN 1
                  ELSE IF Cardinality(heavy) > 1 /\ \A h \in heavy : h <= u THEN 3
                  ELSE 2
      RECURSIVE upto(_)
      upto(u) == IF u = 0 THEN 0 ELSE upto(u - 1) + count(u)
      user_at(p) == CHOOSE u \in 1..n : upto(u - 1) < p /\ p <= upto(u)
  IN [p \in 1..upto(n) |->
        [osm_id |-> p, user |-> ToString(user_at(p)), timestamp |-> <<>>, date_added |-> 1]]

\* no, one or two heavy contributors among 1..n
HeavySets(n) == {{}} \cup {{a, b} : a, b \in 1..n}

SummaryInputs ==
  UNION {{EntitiesOf(n, heavy) : heavy \in HeavySets(n)} : n \in 0..MaxUsers}

InitSummary ==
  /\ baseline = <<>>
  /\ known_ids = [baseline_ids |-> <<>>, new_ids |-> <<>>]
  /\ existing_new \in {[features |-> features] : features \in SummaryInputs}
  /\ stats = [baseline_count |-> 0, new_count |-> 0, last_updated |-> BASELINE_DATE,
              leaderboard |-> <<>>, daily_additions |-> <<>>]
  /\ last_updated_txt = <<>>
  /\ now = 1
  /\ pc = "idle"
  /\ run = NoRun
  /\ q = NoQuery
  /\ hist = HistOff

\* the "Update stats" block, on the entities at hand
Summarize ==
  /\ pc = "idle"
  /\ pc' = "summarized"
  /\ stats' = stats_of(stats, new_lamps, TRUE, now)
  /\ UNCHANGED <<known_ids, existing_new, baseline, last_updated_txt, now, run, q, hist>>

NextSummary == Summarize

SpecSummary == InitSummary /\ [][NextSummary]_vars

-----------------------------------------------------------------------------
(* Vocabulary of the properties *)

IdsOf(features) == {features[i].osm_id : i \in DOMAIN features}
BaselineIds == Range(known_ids.baseline_ids)
FetchedIds == IdsOf(run.new_lamps_data)
DailyOk == run.script = "daily" /\ run.outcome = "ok"
DailyFailed == run.script = "daily" /\ run.outcome = "error"

\* the date_added a first observation of f in the last run would have got
FirstObservationDate(f) == IF f.timestamp # <<>> THEN DatePart(f.timestamp) ELSE run.today

-----------------------------------------------------------------------------
(* C1 *)

\* C1 (as claimed): all date_added values ever persisted for one id are equal: every
\* persisted entity carries the date_added its id was first persisted with.
C1_DateAddedNeverChanges ==
  \A i \in DOMAIN new_lamps : hist.first_date[new_lamps[i].osm_id] = new_lamps[i].date_added

\* C1 (amended): date_added is stable for as long as the id stays in new_entities: an id
\* that is in the persisted collection before and after a step has the same date_added.
C1_DateAddedStableWhilePresent ==
  [][\A i \in DOMAIN new_lamps : \A j \in DOMAIN new_lamps' :
       new_lamps[i].osm_id = new_lamps'[j].osm_id
         => new_lamps[i].date_added = new_lamps'[j].date_added]_vars

\* a run has kept an existing entity whose date_added is not what the fetch would give it
C1_Witness ==
  /\ DailyOk
  /\ \E i \in DOMAIN new_lamps :
       /\ new_lamps[i].osm_id \in run.existing
       /\ new_lamps[i].date_added # FirstObservationDate(new_lamps[i])

-----------------------------------------------------------------------------
(* C2 *)

\* C2: in every persisted state, baseline_ids and the ids of new_entities are disjoint.
C2_BaselineDisjointFromNew == BaselineIds \cap IdsOf(new_lamps) = {}

\* a run whose fetch held a baseline id has persisted other entities
C2_Witness ==
  /\ DailyOk
  /\ FetchedIds \cap BaselineIds # {}
  /\ new_lamps # <<>>

-----------------------------------------------------------------------------
(* C3 - C6: overpass_query *)

\* a parseable response that passes the freshness check
Usable(response) == response.kind = "json" /\ check_overpass_timestamp(response).is_fresh

\* the error an endpoint's unusable answer stands for
FailureOf(response) ==
  IF response.kind = "json" THEN Err("DataTooStale", 0, response.ts.lag)
  ELSE IF response.kind = "HTTPError" THEN Err("HTTPError", response.code, 0)
  ELSE Err(response.kind, 0, 0)

Answered == q.got # <<>>

\* C3: overpass_query contacts the endpoints in list order, each at most once (after a
\* 429 it pauses and moves on); it goes on only past unusable answers, and at the first
\* usable answer it stops and returns exactly that answer, with no error.
C3_EndpointsInOrderStopAtFirstUsable ==
  /\ q.contacted = [i \in 1..Len(q.contacted) |-> i]
  /\ Len(q.contacted) <= NumEndpoints
  /\ (Answered /\ q.status \in {"loop", "raised"}) => ~Usable(q.got[1])
  /\ (Answered /\ Usable(q.got[1])) => q.status = "returned"
  /\ q.status = "returned" => (Usable(q.got[1]) /\ q.parsed = q.got /\ q.error = <<>>)
  /\ (Answered /\ q.got[1] = HttpError(429)) => (q.slept >= RateLimitPause /\ q.status # "returned")

\* 429, 429, then a fresh answer from the third endpoint, which is returned
C3_Witness ==
  /\ q.status = "returned"
  /\ q.contacted = <<1, 2, 3>>
  /\ q.slept = 2 * RateLimitPause
  /\ q.parsed = <<Json(TsAt(0), <<[type |-> "node", id |-> 1]>>)>>

\* C4 (as claimed): with the default threshold a parseable response is accepted if and
\* only if its timestamp is absent or at most 24 hours old.
C4_AcceptedIffAbsentOrWithinDay ==
  (Answered /\ q.min_freshness_hours = <<>> /\ q.got[1].kind = "json")
    => (q.status = "returned"
          <=> \/ q.got[1].ts.kind = "absent"
              \/ /\ q.got[1].ts.kind = "instant"
                 /\ q.got[1].ts.lag <= HoursAgo(24))

\* C4 (amended): with the default threshold a parseable response is accepted if and only
\* if its timestamp is absent, cannot be read as an instant, or is at most 24 hours old;
\* one more than 24 hours old is never returned.
C4_AcceptedIffNotKnownOlderThanDay ==
  (Answered /\ q.min_freshness_hours = <<>> /\ q.got[1].kind = "json")
    => (q.status = "returned"
          <=> \/ q.got[1].ts.kind \in {"absent", "invalid"}
              \/ /\ q.got[1].ts.kind = "instant"
                 /\ q.got[1].ts.lag <= HoursAgo(24))

\* an answer older than 24 hours was passed over, one without a timestamp was returned
C4_Witness ==
  /\ q.min_freshness_hours = <<>>
  /\ q.status = "returned"
  /\ q.stale >= 1
  /\ q.got[1].ts.kind = "absent"

\* C5: called with min_freshness_hours = h (h > 0), overpass_query applies h as the
\* threshold: an answer dated more than h hours ago is skipped, one at most h hours old
\* is accepted.
C5_ThresholdIsMinFreshnessHours ==
  (Answered /\ q.min_freshness_hours \notin {<<>>, <<0>>} /\ q.got[1].kind = "json"
            /\ q.got[1].ts.kind = "instant")
    => (q.status = "returned" <=> q.got[1].ts.lag <= HoursAgo(q.min_freshness_hours[1]))

\* C6: with every endpoint tried and no usable answer, overpass_query raises and returns
\* nothing, and the error carries the error of the last endpoint tried (data too stale
\* for a stale last answer); it raises in no other case.
C6_ExhaustionRaisesLastError ==
  /\ (Len(q.contacted) = NumEndpoints /\ ~Usable(q.got[1]))
       => /\ q.status = "raised"
          /\ q.parsed = <<>>
          /\ q.error = <<AllEndpointsFailed(FailureOf(q.got[1]))>>
  /\ q.status = "raised" => (Len(q.contacted) = NumEndpoints /\ ~Usable(q.got[1]))

\* raised after a 429 somewhere and a stale answer from the last endpoint
C6_Witness ==
  /\ q.status = "raised"
  /\ q.slept > 0
  /\ q.got[1].kind = "json"
  /\ q.error[1].last.type = "DataTooStale"

-----------------------------------------------------------------------------
(* C7 - C10: the daily run *)

\* the step that ends a daily run
DailyEnds == pc # "idle" /\ pc' = "idle" /\ run'.script = "daily"

\* C7 (as claimed): when every Overpass endpoint answered with stale data, a daily run
\* with default options fails with the exhaustion error and leaves the catalog as it was.
C7_AllStaleRunFails ==
  [][(DailyEnds /\ run'.all_stale /\ ~run'.full_refresh /\ ~run'.no_postpass_fallback)
       => /\ run'.outcome = "error"
          /\ run'.error[1].type = "AllOverpassFailed"
          /\ disk' = disk]_vars

\* C7 (amended): when every Overpass endpoint answered with stale data, a daily run with
\* --no-postpass-fallback fails with the exhaustion error (carrying data too stale) and
\* leaves the catalog as it was; without that option the run turns to Postpass, and it
\* fails, catalog untouched, only if Postpass fails too.
C7_AllStaleRunFailsWithoutPostpass ==
  [][(DailyEnds /\ run'.all_stale)
       => IF run'.no_postpass_fallback
          THEN /\ run'.outcome = "error"
               /\ run'.error[1].type = "AllOverpassFailed"
               /\ run'.error[1].last.type = "DataTooStale"
               /\ ~run'.postpass
               /\ disk' = disk
          ELSE /\ run'.postpass
               /\ run'.outcome = "error"
                    => (run'.error[1].type = "PostpassFailed" /\ disk' = disk)
               /\ run'.outcome = "ok"
                    => (~run'.has_metadata /\ stats'.data_source = "postpass")]_vars

\* all endpoints stale, no fallback: the run has failed over a catalog that has entities
C7_Witness ==
  /\ DailyFailed
  /\ run.all_stale
  /\ run.no_postpass_fallback
  /\ new_lamps # <<>>

\* C8: a daily run writes nothing before its fetch has succeeded: while it is fetching,
\* and when it ends with an error (Overpass exhausted with the fallback disabled, or
\* Postpass failing too), every persisted file is what it was before.
C8_NoWriteBeforeFetchSucceeds ==
  [][/\ (run'.script = "daily" /\ run'.outcome \in {"running", "error"}) => disk' = disk
     /\ (DailyEnds /\ run'.outcome = "error")
          => \/ /\ run'.error[1].type = "AllOverpassFailed"
                /\ run'.no_postpass_fallback
             \/ /\ run'.error[1].type = "PostpassFailed"
                /\ ~run'.no_postpass_fallback]_vars

\* Overpass exhausted and Postpass failed, over a catalog that has entities
C8_Witness ==
  /\ DailyFailed
  /\ run.postpass
  /\ run.error[1].type = "PostpassFailed"
  /\ new_lamps # <<>>

\* C9: a daily run without --full-refresh keeps every prior entity whose id the fetch
\* lacks, unchanged, in the resulting collection.
C9_IncrementalKeepsAbsentEntities ==
  [][(DailyEnds /\ run'.outcome = "ok" /\ ~run'.full_refresh)
       => \A i \in DOMAIN new_lamps :
            new_lamps[i].osm_id \notin IdsOf(run'.new_lamps_data)
              => new_lamps[i] \in Range(new_lamps')]_vars

\* C10: after a daily run with --full-refresh the ids of the collection are the ids of
\* the fetch minus the baseline ids, each once; a known entity the fetch lacks is gone.
C10_FullModeIsFetchMinusBaseline ==
  (DailyOk /\ run.full_refresh)
    => /\ IdsOf(new_lamps) = FetchedIds \ BaselineIds
       /\ Cardinality(IdsOf(new_lamps)) = Len(new_lamps)
       /\ (run.existing \ FetchedIds) \cap IdsOf(new_lamps) = {}

\* id 2 was known before the run, the fetch lacked it and brought another entity
C10_Witness ==
  /\ DailyOk
  /\ run.full_refresh
  /\ 2 \in run.existing
  /\ 2 \notin FetchedIds
  /\ new_lamps # <<>>

-----------------------------------------------------------------------------
(* C11 *)

\* C11: when a run whose fetch has no contributor metadata (Postpass) re-reports an id
\* that new_entities holds with a known contributor, the persisted entity keeps that
\* contributor and the date_added of the prior record.
C11_KnownUserKeptWithoutMetadata ==
  [][(DailyEnds /\ run'.outcome = "ok" /\ ~run'.has_metadata)
       => \A i \in DOMAIN new_lamps :
            (/\ new_lamps[i].osm_id \in IdsOf(run'.new_lamps_data) \ BaselineIds
             /\ new_lamps[i].user # "unknown")
              => \E j \in DOMAIN new_lamps' :
                   /\ new_lamps'[j].osm_id = new_lamps[i].osm_id
                   /\ new_lamps'[j].user = new_lamps[i].user
                   /\ new_lamps'[j].date_added = new_lamps[i].date_added]_vars

\* a Postpass run on a later day has persisted a known entity under alice's name
C11_Witness ==
  /\ DailyOk
  /\ ~run.has_metadata
  /\ \E i \in DOMAIN new_lamps :
       /\ new_lamps[i].osm_id \in run.existing
       /\ new_lamps[i].user = "alice"
       /\ new_lamps[i].date_added # run.today

-----------------------------------------------------------------------------
(* C12 *)

\* an expected key is missing from a file the daily run reads
Malformed ==
  \/ "baseline_ids" \notin DOMAIN known_ids
  \/ "features" \notin DOMAIN existing_new
  \/ \E i \in DOMAIN new_lamps : "date_added" \notin DOMAIN new_lamps[i]

\* C12 (as claimed): on a catalog that lacks baseline_ids, the features list or an
\* entity's date_added, a daily run ends with an error and writes nothing.
C12_MalformedCatalogIsFatal ==
  [][(Malformed /\ run'.script = "daily") => (run'.outcome # "ok" /\ disk' = disk)]_vars

\* C12 (amended): only a ledger without baseline_ids is fatal, before the fetch and with
\* nothing written; a collection without a features list is read as an empty one (every
\* fetched entity is dated as a first observation), and a known entity without
\* date_added gets the run's date.
C12_OnlyMissingBaselineIdsIsFatal ==
  [][/\ (pc = "idle" /\ run' # run /\ run'.script = "daily")
          => IF "baseline_ids" \notin DOMAIN known_ids
             THEN /\ pc' = "idle"
                  /\ run'.outcome = "error"
                  /\ run'.error = <<KeyError("baseline_ids")>>
                  /\ disk' = disk
             ELSE pc' = "overpass" /\ run'.outcome = "running"
     /\ (DailyEnds /\ run'.outcome = "ok")
          => /\ "features" \notin DOMAIN existing_new
                  => \A j \in DOMAIN new_lamps' :
                       new_lamps'[j].date_added =
                         IF new_lamps'[j].timestamp # <<>>
                         THEN DatePart(new_lamps'[j].timestamp) ELSE run'.today
             /\ \A i \in DOMAIN new_lamps : \A j \in DOMAIN new_lamps' :
                  (/\ new_lamps[i].osm_id = new_lamps'[j].osm_id
                   /\ "date_added" \notin DOMAIN new_lamps[i])
                    => new_lamps'[j].date_added = run'.today]_vars

\* a known entity without date_added was fetched with an older edit time and persisted
\* with the run's date
C12_Witness ==
  /\ DailyOk
  /\ \E i \in DOMAIN new_lamps :
       /\ new_lamps[i].osm_id \in run.undated
       /\ new_lamps[i].timestamp # <<>>
       /\ DatePart(new_lamps[i].timestamp) # run.today
       /\ new_lamps[i].date_added = run.today

-----------------------------------------------------------------------------
(* C13 *)

\* C13 (as claimed): the persisted entities are sorted by date_added descending, then id
\* descending: of two adjacent entities the first has the later date, or the same date
\* and the greater id.
C13_SortedByDateThenIdDescending ==
  \A i \in 1..(Len(new_lamps) - 1) :
    \/ new_lamps[i].date_added > new_lamps[i + 1].date_added
    \/ /\ new_lamps[i].date_added = new_lamps[i + 1].date_added
       /\ new_lamps[i].osm_id > new_lamps[i + 1].osm_id

\* C13 (amended): the persisted entities are sorted by date_added descending, then id
\* ascending: of two adjacent entities the first has the later date, or the same date
\* and the smaller id.
C13_SortedByDateDescendingThenIdAscending ==
  \A i \in 1..(Len(new_lamps) - 1) :
    \/ new_lamps[i].date_added > new_lamps[i + 1].date_added
    \/ /\ new_lamps[i].date_added = new_lamps[i + 1].date_added
       /\ new_lamps[i].osm_id < new_lamps[i + 1].osm_id

\* two entities of one date, fetched with the greater id first
C13_Witness ==
  /\ DailyOk
  /\ Len(new_lamps) = 2
  /\ new_lamps[1].date_added = new_lamps[2].date_added
  /\ Len(run.new_lamps_data) = 2
  /\ run.new_lamps_data[1].osm_id > run.new_lamps_data[2].osm_id

-----------------------------------------------------------------------------
(* C14, C15: two runs in a row *)

\* a daily run succeeds right after another successful daily run
SecondRunEnds == DailyEnds /\ run'.outcome = "ok" /\ hist.last # <<>>

\* the entities one merge of fetch into catalog gives
MergeOf(catalog, fetch, has_metadata, today) ==
  sort_features(merge_features(truly_new_of(fetch, known_ids.baseline_ids),
                               existing_by_id_of(catalog), has_metadata, today))

\* C14: without --full-refresh, merging fetch A and then fetch B (disjoint ids, same day,
\* same source) from catalog C leaves the same set of entities as one merge of A and B
\* together from C.
C14_IncrementalMergeAssociative ==
  [][(/\ SecondRunEnds
      /\ ~run'.full_refresh
      /\ hist.last[1].today = run'.today
      /\ hist.last[1].has_metadata = run'.has_metadata
      /\ IdsOf(hist.last[1].fetch) \cap IdsOf(run'.new_lamps_data) = {})
       => Range(new_lamps') =
            Range(MergeOf(hist.last[1].catalog,
                          hist.last[1].fetch \o run'.new_lamps_data,
                          run'.has_metadata, run'.today))]_vars

\* C15: a run with --full-refresh that repeats the fetch, the day and the source of the
\* run before it leaves the entities, the ledger and the stats (last_updated aside) as
\* that run wrote them.
C15_FullMergeIdempotent ==
  [][(/\ SecondRunEnds
      /\ run'.full_refresh
      /\ hist.last[1].fetch = run'.new_lamps_data
      /\ hist.last[1].today = run'.today
      /\ hist.last[1].has_metadata = run'.has_metadata)
       => /\ existing_new' = existing_new
          /\ known_ids' = known_ids
          /\ [stats' EXCEPT !.last_updated = 0] = [stats EXCEPT !.last_updated = 0]]_vars

\* the same non-empty fetch merged twice: entities persisted, all of them known already
C15_Witness ==
  /\ DailyOk
  /\ run.full_refresh
  /\ hist.repeated
  /\ new_lamps # <<>>
  /\ IdsOf(new_lamps) \subseteq run.existing
  /\ run.new_today_count = 0

-----------------------------------------------------------------------------
(* C16 - C18, C20: what a successful daily run leaves *)

\* C16: an entity persisted by a run that did not know its id gets the day of its edit
\* timestamp as date_added, or the run's date when it has no timestamp; and the run's
\* count of discoveries is the number of such entities.
C16_FirstObservationDated ==
  DailyOk
    => /\ \A i \in DOMAIN new_lamps :
            new_lamps[i].osm_id \notin run.existing
              => new_lamps[i].date_added =
                   IF new_lamps[i].timestamp # <<>>
                   THEN DatePart(new_lamps[i].timestamp) ELSE run.today
       /\ run.new_today_count = Cardinality(IdsOf(new_lamps) \ run.existing)

\* two discoveries in one run: one dated by an older timestamp, one by the run's date
C16_Witness ==
  /\ DailyOk
  /\ run.new_today_count = 2
  /\ \E i, j \in DOMAIN new_lamps :
       /\ new_lamps[i].timestamp # <<>>
       /\ new_lamps[i].date_added # run.today
       /\ new_lamps[j].timestamp = <<>>
       /\ new_lamps[j].date_added = run.today

\* C17: after a successful daily run the new_ids index has one entry for the run's date,
\* holding exactly the fetched ids that are not baseline ids, known before or not: the
\* ids of the persisted entities.
C17_IndexHoldsAllFetchedNewIds ==
  DailyOk
    => /\ \E i \in DOMAIN known_ids.new_ids : known_ids.new_ids[i].date = run.today
       /\ \A i \in DOMAIN known_ids.new_ids :
            known_ids.new_ids[i].date = run.today
              => /\ Range(known_ids.new_ids[i].ids) = FetchedIds \ BaselineIds
                 /\ Range(known_ids.new_ids[i].ids) = IdsOf(new_lamps)

\* the entry holds an id known before the run together with a discovery, and the fetch
\* had a baseline id
C17_Witness ==
  /\ DailyOk
  /\ Len(known_ids.new_ids) = 1
  /\ Range(known_ids.new_ids[1].ids) \cap run.existing # {}
  /\ Range(known_ids.new_ids[1].ids) \ run.existing # {}

\* C18: no step of a daily run changes baseline_ids.
C18_DailyRunKeepsBaselineIds ==
  [][run'.script = "daily" => known_ids'.baseline_ids = known_ids.baseline_ids]_vars

\* a Postpass run has rewritten the ledger; its fetch held a baseline id
C18_Witness ==
  /\ DailyOk
  /\ ~run.has_metadata
  /\ FetchedIds \cap BaselineIds # {}
  /\ known_ids.new_ids # <<>>
  /\ new_lamps # <<>>

RECURSIVE SumOfCounts(_)
SumOfCounts(entries) ==
  IF entries = <<>> THEN 0 ELSE entries[1].count + SumOfCounts(Tail(entries))

\* C20: after a successful daily run new_count is the number of persisted entities,
\* daily_additions has for each date the number of entities with that date_added (and no
\* other key), its values sum to new_count, and its keys are ascending.
C20_CountsMatchEntities ==
  DailyOk
    => /\ stats.new_count = Len(new_lamps)
       /\ \A k \in DOMAIN stats.daily_additions :
            stats.daily_additions[k].count =
              Cardinality({i \in DOMAIN new_lamps :
                             new_lamps[i].date_added = stats.daily_additions[k].date})
       /\ \A i \in DOMAIN new_lamps :
            \E k \in DOMAIN stats.daily_additions :
              stats.daily_additions[k].date = new_lamps[i].date_added
       /\ SumOfCounts(stats.daily_additions) = stats.new_count
       /\ \A k \in 1..(Len(stats.daily_additions) - 1) :
            stats.daily_additions[k].date < stats.daily_additions[k + 1].date

\* entities of two dates
C20_Witness ==
  /\ DailyOk
  /\ Len(stats.daily_additions) = 2
  /\ stats.new_count = 2

-----------------------------------------------------------------------------
(* C19 *)

EntitiesBy(user) == Cardinality({i \in DOMAIN new_lamps : new_lamps[i].user = user})
Contributors == {new_lamps[i].user : i \in DOMAIN new_lamps}
Listed == {stats.leaderboard[k].user : k \in DOMAIN stats.leaderboard}

\* C19: the leaderboard has at most 20 entries (all contributors when they are fewer),
\* one per contributor, each with the number of that contributor's entities, in
\* non-increasing order of count, and no contributor left out has more entities than a
\* listed one.
C19_LeaderboardIsTopTwenty ==
  pc = "summarized"
    => /\ Len(stats.leaderboard) <= 20
       /\ Cardinality(Listed) = Len(stats.leaderboard)
       /\ Cardinality(Contributors) <= 20 => Listed = Contributors
       /\ \A k \in DOMAIN stats.leaderboard :
            /\ stats.leaderboard[k].user \in Contributors
            /\ stats.leaderboard[k].count = EntitiesBy(stats.leaderboard[k].user)
       /\ \A k \in 1..(Len(stats.leaderboard) - 1) :
            stats.leaderboard[k].count >= stats.leaderboard[k + 1].count
       /\ \A user \in Contributors \ Listed : \A k \in DOMAIN stats.leaderboard :
            EntitiesBy(user) <= stats.leaderboard[k].count

\* more than 20 contributors; the two with most entities were met last and lead the board
C19_Witness ==
  /\ pc = "summarized"
  /\ Cardinality(Contributors) > 20
  /\ Len(stats.leaderboard) = 20
  /\ stats.leaderboard[1].user = new_lamps[Len(new_lamps)].user
  /\ stats.leaderboard[1].count > stats.leaderboard[2].count
  /\ stats.leaderboard[2].count > stats.leaderboard[3].count

-----------------------------------------------------------------------------
(* C21 *)

\* the ids the new_ids index lists, under any date
IndexedIds == UNION {Range(known_ids.new_ids[i].ids) : i \in DOMAIN known_ids.new_ids}

\* C21 (as claimed): across daily runs and prune runs, an id that has ever been in
\* baseline_ids is neither in new_entities nor in the new_ids index.
C21_BaselineIdNeverNew ==
  /\ Range(known_ids.baseline_ids) \subseteq hist.baseline_ids
  /\ hist.baseline_ids \cap (IdsOf(new_lamps) \cup IndexedIds) = {}

-----------------------------------------------------------------------------
(* C22 *)

\* a daily run ends with the files written
DailyCommits == DailyEnds /\ run'.outcome = "ok"

\* C22 (as claimed): a successful daily run leaves every new_ids entry of a date other
\* than its own in the index, with the same ids.
C22_EarlierEntriesKept ==
  [][DailyCommits
       => \A i \in DOMAIN known_ids.new_ids :
            known_ids.new_ids[i].date # run'.today
              => \E j \in DOMAIN known_ids'.new_ids :
                   known_ids'.new_ids[j] = known_ids.new_ids[i]]_vars

\* C22 (amended): a successful daily run replaces the whole new_ids index by one entry,
\* the run date's: every entry recorded under another date by a previous run is gone.
C22_IndexReplacedByRunDateEntry ==
  [][DailyCommits
       => /\ Len(known_ids'.new_ids) = 1
          /\ known_ids'.new_ids[1].date = run'.today
          /\ \A i \in DOMAIN known_ids.new_ids :
               known_ids.new_ids[i].date # run'.today
                 => \A j \in DOMAIN known_ids'.new_ids :
                      known_ids'.new_ids[j].date # known_ids.new_ids[i].date]_vars

\* a run found an entry of an earlier date, with ids, and left its own entry alone
C22_Witness ==
  /\ DailyOk
  /\ hist.last # <<>>
  /\ \E i \in DOMAIN hist.last[1].index :
       /\ hist.last[1].index[i].date < run.today
       /\ hist.last[1].index[i].ids # <<>>
  /\ Len(known_ids.new_ids) = 1
  /\ known_ids.new_ids[1].date = run.today

-----------------------------------------------------------------------------
(* C23 *)

\* a prune run has saved the files, with entities of new_entities removed
PruneRemoved ==
  /\ run.script = "prune" /\ run.outcome = "ok" /\ ~run.dry_run
  /\ run.existing \ IdsOf(new_lamps) # {}

\* C23: after a prune run that removes entities, new_count, the leaderboard and
\* daily_additions are the values computed from the pruned new_entities, and the new_ids
\* index lists no removed id.
C23_SummaryFollowsPrunedCatalog ==
  PruneRemoved
    => /\ stats.new_count = Len(new_lamps)
       /\ stats.leaderboard = leaderboard_of(new_lamps)
       /\ stats.daily_additions = daily_additions_of(new_lamps)
       /\ IndexedIds \cap (run.existing \ IdsOf(new_lamps)) = {}

-----------------------------------------------------------------------------
(* C24 *)

\* the step in which overpass_query gives up for a daily run
OverpassExhausted == pc = "overpass" /\ pc' # "overpass" /\ run'.outcome # "ok"

-----------------------------------------------------------------------------
(* C25 *)

\* the same records, listed in any order
Reorderings(records) ==
  {s \in [DOMAIN records -> Range(records)] : Range(s) = Range(records)}

\* the ids of features, in their order
IdList(features) == [i \in DOMAIN features |-> features[i].osm_id]

\* C25 (as claimed): what a successful daily run persists is what it would have persisted,
\* from the same catalog on the same date, had the response listed its records in any
\* other order: the same sequence of entities, the same new_ids (ids in the same order),
\* the same leaderboard.
C25_ResultIndependentOfRecordOrder ==
  [][DailyCommits
       => \A fetch \in Reorderings(run'.new_lamps_data) :
            LET new_features == new_features_of(fetch, run'.has_metadata, run'.today)
                truly_new == truly_new_of(fetch, known_ids.baseline_ids)
            IN /\ existing_new'.features = new_features
               /\ known_ids'.new_ids = known_ids_of(known_ids, truly_new, run'.today).new_ids
               /\ stats'.leaderboard = leaderboard_of(new_features)]_vars

\* C25 (amended): the sequence of entities and the leaderboard do not depend on the order
\* of the records in the response; the new_ids entry holds the same set of ids whatever
\* the order, listed in the order of the response.
C25_EntitiesAndLeaderboardIndependentOfRecordOrder ==
  [][DailyCommits
       => /\ \A fetch \in Reorderings(run'.new_lamps_data) :
               LET new_features == new_features_of(fetch, run'.has_metadata, run'.today)
                   truly_new == truly_new_of(fetch, known_ids.baseline_ids)
                   new_ids == known_ids_of(known_ids, truly_new, run'.today).new_ids
               IN /\ existing_new'.features = new_features
                  /\ Len(new_ids) = Len(known_ids'.new_ids)
                  /\ \A i \in DOMAIN new_ids :
                       /\ new_ids[i].date = known_ids'.new_ids[i].date
                       /\ Range(new_ids[i].ids) = Range(known_ids'.new_ids[i].ids)
                  /\ stats'.leaderboard = leaderboard_of(new_features)
          /\ known_ids'.new_ids[1].ids =
               IdList(truly_new_of(run'.new_lamps_data, known_ids.baseline_ids))]_vars

\* two entities of one date and of two contributors, fetched in the order opposite to the
\* one they are persisted in
C25_Witness ==
  /\ DailyOk
  /\ Len(new_lamps) = 2
  /\ new_lamps[1].date_added = new_lamps[2].date_added
  /\ IdList(run.new_lamps_data) = <<new_lamps[2].osm_id, new_lamps[1].osm_id>>
  /\ known_ids.new_ids[1].ids = <<new_lamps[2].osm_id, new_lamps[1].osm_id>>
  /\ Len(stats.leaderboard) = 2

-----------------------------------------------------------------------------
(* C26 *)

\* C26 (as claimed): while an id stays in new_entities, a known contributor persisted for
\* it is not replaced by "unknown" by any run, whatever the source of its fetch.
C26_KnownUserNeverBecomesUnknown ==
  [][\A i \in DOMAIN new_lamps : \A j \in DOMAIN new_lamps' :
       (new_lamps[i].osm_id = new_lamps'[j].osm_id /\ new_lamps[i].user # "unknown")
         => new_lamps'[j].user # "unknown"]_vars

\* C26 (amended): while an id stays in new_entities, a known contributor persisted for it
\* is replaced by "unknown" by exactly the successful runs that took from Overpass a
\* record of that id without the user field; a run that fetched from Postpass keeps it.
C26_KnownUserLostOnlyToOverpassRecordWithoutUser ==
  [][\A i \in DOMAIN new_lamps : \A j \in DOMAIN new_lamps' :
       (new_lamps[i].osm_id = new_lamps'[j].osm_id /\ new_lamps[i].user # "unknown")
         => /\ new_lamps'[j].user = "unknown"
                 <=> /\ DailyCommits
                     /\ run'.has_metadata
                     /\ HasId(run'.new_lamps_data, new_lamps[i].osm_id)
                     /\ Lookup(run'.new_lamps_data, new_lamps[i].osm_id).user = "unknown"
            /\ (DailyCommits /\ ~run'.has_metadata)
                 => new_lamps'[j].user = new_lamps[i].user]_vars

\* an Overpass run found an entity under alice's name and has persisted it as unknown
C26_Witness ==
  /\ DailyOk
  /\ run.has_metadata
  /\ hist.last # <<>>
  /\ \E i \in DOMAIN hist.last[1].catalog : \E j \in DOMAIN new_lamps :
       /\ hist.last[1].catalog[i].osm_id = new_lamps[j].osm_id
       /\ hist.last[1].catalog[i].user = "alice"
       /\ new_lamps[j].user = "unknown"
       /\ new_lamps[j].date_added = hist.last[1].catalog[i].date_added

====
